---- MODULE Spec2Model ----
(***************************************************************************)
(* Model of the layout engine of architect_layout.py: the grid            *)
(* computation, the room list and its sort, the greedy shelf placement     *)
(* loop and the coverage figure.                                           *)
(*                                                                         *)
(* Units.  The program works on Python floats.  Lengths typed into the     *)
(* form are modelled as integers in decimetres (3.2 m = 32), areas as      *)
(* integers in square metres, the grid snap in centimetres.  cell_m, the   *)
(* cell size, is kept in centimetres (cell_m = 50 stands for 0.5 m).       *)
(* A room dimension is either a typed-in length or a square root produced  *)
(* by area_to_dims; both are held as a record [n, d, root] that stands for *)
(* n/d decimetres (root = FALSE) or sqrt(n/d) decimetres (root = TRUE).    *)
(* round() is Python 3's round-half-to-even.  The snaps used (50, 100 and  *)
(* their negatives) give cell sizes that are exact in binary, so the       *)
(* quotient meters / cell is the exact one whenever it lies on a tie.      *)
(***************************************************************************)
EXTENDS Integers, Sequences, FiniteSets, TLC

\* ------------------------------------------------------------ bounds
\* Largest bedrooms count tried (the form's default is 3).
MaxBedrooms == 3

\* ------------------------------------------------------------ input sets
\* Values the sidebar inputs are drawn from (decimetres, m2, cm).
PlotWidths == {10, 80, 140}
PlotDepths == {10, 70, 240}
FrontSetbacks == {0, 45}
RearSetbacks == {-10, 30}
LeftSetbacks == {20}
RightSetbacks == {20}
GridSnaps == {-50, 0, 50, 100}
CarWidths == {12, 32}
CarDepths == {25, 55}
BedroomAreas == {3, 12}
BedroomCounts == 0..MaxBedrooms
BathAreas == {0, 4}
LoungeAreas == {3, 20}

\* aspect_ratio = 1.3 = AspectNum / AspectDen
AspectNum == 13
AspectDen == 10

VARIABLES
    PLOT_WIDTH, PLOT_DEPTH, front_setback, rear_setback, left_setback,
    right_setback, grid_snap_cm, car_w, car_d, bedroom_area, bedrooms_count,
    bath_area, lounge_area,
    pc,              \* position of the script run
    cell_m,          \* cell size (cm), 0 until computed
    grid_w, grid_h, left_c, right_c, front_c, rear_c,
    build_w, build_h,
    fperr,           \* rounding error of the float product w*h of the area rooms, in ulps
    rooms,           \* the room list, sorted once pc = "placing"
    idx,             \* 1-based position of the for loop in rooms
    layout,          \* dict name -> <<x, y, w_cells, h_cells>>
    cursor_x, cursor_y, max_row_height,
    started_shelf,   \* the last iteration took the branch of line 94
    warnings,        \* names reported by st.warning, in order
    error_shown,     \* st.error was called
    coverage         \* <<>> until computed, then <<numerator, denominator>> of the percentage / 100

inputs == <<PLOT_WIDTH, PLOT_DEPTH, front_setback, rear_setback, left_setback,
            right_setback, grid_snap_cm, car_w, car_d, bedroom_area,
            bedrooms_count, bath_area, lounge_area>>
grid == <<cell_m, grid_w, grid_h, left_c, right_c, front_c, rear_c, build_w, build_h>>
cursor == <<cursor_x, cursor_y, max_row_height>>
packing == <<rooms, idx, layout, cursor_x, cursor_y, max_row_height, started_shelf, warnings>>
vars == <<inputs, pc, grid, fperr, packing, error_shown, coverage>>

\* ------------------------------------------------------------ arithmetic
Max(a, b) == IF a >= b THEN a ELSE b

\* Python round(p / q) for q # 0: nearest integer, ties to the even one.
PyRound(p, q) ==
    LET pp == IF q < 0 THEN -p ELSE p
        qq == IF q < 0 THEN -q ELSE q
        f == pp \div qq
        r == pp % qq
    IN  IF 2 * r < qq THEN f
        ELSE IF 2 * r > qq THEN f + 1
        ELSE IF f % 2 = 0 THEN f ELSE f + 1

\* round(sqrt(n / d)) for n >= 0, d > 0, searching upward from k.
RECURSIVE RoundSqrtFrom(_, _, _)
RoundSqrtFrom(n, d, k) ==
    LET up == (2 * k + 1) * (2 * k + 1) * d
    IN  IF 4 * n < up THEN k
        ELSE IF 4 * n = up THEN (IF k % 2 = 0 THEN k ELSE k + 1)
        ELSE RoundSqrtFrom(n, d, k + 1)

RoundSqrt(n, d) == RoundSqrtFrom(n, d, 0)

\* Integer square root of v (largest s with s*s <= v) by bisection on lo..hi.
RECURSIVE ISqrtIn(_, _, _)
ISqrtIn(v, lo, hi) ==
    IF lo >= hi THEN lo
    ELSE LET mid == (lo + hi + 1) \div 2
         IN  IF mid * mid <= v THEN ISqrtIn(v, mid, hi) ELSE ISqrtIn(v, lo, mid - 1)

\* ------------------------------------------------------------ helper functions
\* to_grid(meters, snap_cm): <<cells, cell>>; snap_cm # 0 (0 raises ZeroDivisionError).
CellFloor_none(cells) == Max(0, cells)
CellFloor(cells) == Max(1, cells)

to_grid(meters, snap_cm) == <<CellFloor(PyRound(meters * 10, snap_cm)), snap_cm>>

\* A typed-in length of v decimetres.
Len_dm(v) == [n |-> v, d |-> 1, root |-> FALSE]

\* area_to_dims(area) for area > 0: w = sqrt(area * r), h = area / w = sqrt(area / r).
area_to_dims(area) ==
    << [n |-> 100 * area * AspectNum, d |-> AspectDen, root |-> TRUE],
       [n |-> 100 * area * AspectDen, d |-> AspectNum, root |-> TRUE] >>

\* max(1, int(round(x_m / cell_m))) of the placement loop, cell # 0.
GridCells(x, cell) ==
    IF x.root
      THEN IF cell < 0 THEN CellFloor(0 - RoundSqrt(100 * x.n, x.d * cell * cell))
           ELSE CellFloor(RoundSqrt(100 * x.n, x.d * cell * cell))
      ELSE CellFloor(PyRound(10 * x.n, cell * x.d))

\* ------------------------------------------------------------ grid computation
BuildSpan_one_side(total, near, far) == total - near
\* build_w = grid_w - left_c - right_c, build_h = grid_h - front_c - rear_c
BuildSpan(total, near, far) == total - near - far

NoBuildableSpace_width_only(bw, bh) == bw <= 0
\* the test of line 67
NoBuildableSpace(bw, bh) == bw <= 0 \/ bh <= 0

\* Lines 56-69: the cell counts, the buildable grid and the check on it.
Generate ==
    /\ pc = "idle"
    /\ IF grid_snap_cm = 0
         THEN \* to_grid divides by cell = 0.0: ZeroDivisionError at line 56
              /\ pc' = "raised"
              /\ UNCHANGED <<grid, error_shown>>
         ELSE LET gw == to_grid(PLOT_WIDTH, grid_snap_cm)
                  gh == to_grid(PLOT_DEPTH, grid_snap_cm)
                  lc == to_grid(left_setback, grid_snap_cm)
                  rc == to_grid(right_setback, grid_snap_cm)
                  fc == to_grid(front_setback, grid_snap_cm)
                  bc == to_grid(rear_setback, grid_snap_cm)
                  bw == BuildSpan(gw[1], lc[1], rc[1])
                  bh == BuildSpan(gh[1], fc[1], bc[1])
              IN  /\ grid_w' = gw[1]
                  /\ cell_m' = gw[2]
                  /\ grid_h' = gh[1]
                  /\ left_c' = lc[1]
                  /\ right_c' = rc[1]
                  /\ front_c' = fc[1]
                  /\ rear_c' = bc[1]
                  /\ build_w' = bw
                  /\ build_h' = bh
                  /\ IF NoBuildableSpace(bw, bh)
                       THEN error_shown' = TRUE /\ pc' = "stopped"
                       ELSE error_shown' = error_shown /\ pc' = "prepare"
    /\ UNCHANGED <<inputs, fperr, packing, coverage>>

\* ------------------------------------------------------------ room list
Name(base, i) == [base |-> base, i |-> i]
CarPorch == Name("Car Porch", 0)
Lounge == Name("Lounge", 0)
Bath == Name("Bath", 0)
Bedroom(i) == Name("Bedroom", i)

Room(name, dims) == [name |-> name, w |-> dims[1], h |-> dims[2]]

\* Lines 72-79: the list in the order it is built.
RoomList ==
    <<Room(CarPorch, <<Len_dm(car_w), Len_dm(car_d)>>)>>
    \o <<Room(Lounge, area_to_dims(lounge_area))>>
    \o [i \in 1..Max(0, bedrooms_count) |-> Room(Bedroom(i), area_to_dims(bedroom_area))]
    \o <<Room(Bath, area_to_dims(bath_area))>>

\* The areas area_to_dims is called on (lines 73, 76, 78).
UsedAreas ==
    {lounge_area, bath_area} \cup (IF bedrooms_count >= 1 THEN {bedroom_area} ELSE {})

\* The exact product w_m * h_m of a room, in dm2.  For an area room the two
\* square roots multiply to sqrt(q1 * q2) with q1 = w.n/h.d and q2 = h.n/w.d,
\* both the integer 100 * area; the root lies between q1 and q2.
Product(r) ==
    IF r.w.root
      THEN LET q1 == r.w.n \div r.h.d
               q2 == r.h.n \div r.w.d
           IN  ISqrtIn(q1 * q2, IF q1 <= q2 THEN q1 ELSE q2, Max(q1, q2))
      ELSE r.w.n * r.h.n

\* The sort key x[1]*x[2] as the floats give it.  The car porch's key is the
\* product of the two typed-in numbers.  The key of a room built by
\* area_to_dims is sqrt(area*r) * (area / sqrt(area*r)), which the three
\* roundings leave at the area or one ulp beside it: err, in ulps.  The scale 4
\* keeps one ulp below any difference of two exact products.  One err serves
\* all area rooms of a run: keys of different areas differ by far more than an
\* ulp, and the car porch can tie with one area only.
SortKey(r, err) == 4 * Product(r) + (IF r.w.root THEN err ELSE 0)

KeepsBefore_ascending(ka, kb) == ka <= kb
KeepsBefore_unstable(ka, kb) == ka > kb
\* list.sort(reverse=True) is stable: an element stays before a later one of
\* the list unless its key is strictly smaller.
KeepsBefore(ka, kb) == ka >= kb

\* r inserted into the sorted prefix s: behind every element that stays before it.
RECURSIVE InsertSorted(_, _, _)
InsertSorted(s, r, err) ==
    IF s = <<>> THEN <<r>>
    ELSE IF KeepsBefore(SortKey(s[Len(s)], err), SortKey(r, err))
           THEN Append(s, r)
           ELSE Append(InsertSorted(SubSeq(s, 1, Len(s) - 1), r, err), s[Len(s)])

\* Line 82: rooms.sort(key=lambda x: x[1]*x[2], reverse=True)
RECURSIVE SortRooms(_, _)
SortRooms(rs, err) ==
    IF rs = <<>> THEN <<>>
    ELSE InsertSorted(SortRooms(SubSeq(rs, 1, Len(rs) - 1), err), rs[Len(rs)], err)

EmptyLayout == [n \in {} |-> <<0, 0, 0, 0>>]

\* Lines 72-88: the room list, its sort and the fresh packing state.
PrepareRooms ==
    /\ pc = "prepare"
    /\ IF \E a \in UsedAreas : a <= 0
         THEN \* area 0: area / w divides by zero (line 41); area < 0: w is complex
              \* and the sort cannot compare the keys (line 82)
              /\ pc' = "raised"
              /\ UNCHANGED <<fperr, packing>>
         ELSE \E err \in {-1, 0, 1} :
              /\ fperr' = err
              /\ rooms' = SortRooms(RoomList, err)
              /\ idx' = 1
              /\ layout' = EmptyLayout
              /\ cursor_x' = 0
              /\ cursor_y' = 0
              /\ max_row_height' = 0
              /\ pc' = "placing"
              /\ UNCHANGED <<started_shelf, warnings>>
    /\ UNCHANGED <<inputs, grid, error_shown, coverage>>

\* ------------------------------------------------------------ greedy placement
\* line 94: the room does not fit in the rest of the current shelf
NewShelf(cx, w, bw) == cx + w > bw

ShelfY_same_row(cy, mrh) == cy
\* line 96: cursor_y += max_row_height
ShelfY(cy, mrh) == cy + mrh

\* line 99: the room does not fit below cursor_y
Overflows(cy, h, bh) == cy + h > bh

NextIdx_break(i, n, overflow) == IF overflow THEN n + 1 ELSE i + 1
\* the for loop goes on to the next room, after a continue as after a placement
NextIdx(i, n, overflow) == i + 1

AdvanceX_stay(cx, w) == cx
\* line 104: cursor_x += w_cells
AdvanceX(cx, w) == cx + w

\* layout[name] = rect
Store(lay, name, rect) ==
    [n \in DOMAIN lay \cup {name} |-> IF n = name THEN rect ELSE lay[n]]

\* Lines 90-105: one iteration of the for loop, on rooms[idx].
PlaceRoom ==
    /\ pc = "placing"
    /\ idx <= Len(rooms)
    /\ LET r == rooms[idx]
           w_cells == GridCells(r.w, cell_m)
           h_cells == GridCells(r.h, cell_m)
           wrap == NewShelf(cursor_x, w_cells, build_w)
           cx == IF wrap THEN 0 ELSE cursor_x
           cy == IF wrap THEN ShelfY(cursor_y, max_row_height) ELSE cursor_y
           mrh == IF wrap THEN 0 ELSE max_row_height
           over == Overflows(cy, h_cells, build_h)
       IN  /\ started_shelf' = wrap
           /\ cursor_y' = cy
           /\ IF over
                THEN /\ warnings' = Append(warnings, r.name)
                     /\ layout' = layout
                     /\ cursor_x' = cx
                     /\ max_row_height' = mrh
                ELSE /\ warnings' = warnings
                     /\ layout' = Store(layout, r.name, <<cx, cy, w_cells, h_cells>>)
                     /\ cursor_x' = AdvanceX(cx, w_cells)
                     /\ max_row_height' = Max(mrh, h_cells)
           /\ idx' = NextIdx(idx, Len(rooms), over)
    /\ UNCHANGED <<inputs, pc, grid, fperr, rooms, error_shown, coverage>>

\* ------------------------------------------------------------ coverage
RECURSIVE SumCells(_, _)
SumCells(lay, names) ==
    IF names = {} THEN 0
    ELSE LET n == CHOOSE x \in names : TRUE
         IN  lay[n][3] * lay[n][4] + SumCells(lay, names \ {n})

\* Lines 108-111, after the loop: coverage = built_area / total_area * 100, kept as
\* the fraction <<cells * cell^2, plot width * plot depth>> (cm2 * 100 over dm2).
Coverage ==
    /\ pc = "placing"
    /\ idx > Len(rooms)
    /\ IF PLOT_WIDTH * PLOT_DEPTH = 0
         THEN pc' = "raised" /\ coverage' = coverage
         ELSE /\ coverage' = <<SumCells(layout, DOMAIN layout) * cell_m * cell_m,
                               PLOT_WIDTH * PLOT_DEPTH>>
              /\ pc' = "done"
    /\ UNCHANGED <<inputs, grid, fperr, packing, error_shown>>

\* ------------------------------------------------------------ specification
\* The state when the Generate button is pressed: the inputs as typed, nothing computed.
Init ==
    /\ PLOT_WIDTH \in PlotWidths
    /\ PLOT_DEPTH \in PlotDepths
    /\ front_setback \in FrontSetbacks
    /\ rear_setback \in RearSetbacks
    /\ left_setback \in LeftSetbacks
    /\ right_setback \in RightSetbacks
    /\ grid_snap_cm \in GridSnaps
    /\ car_w \in CarWidths
    /\ car_d \in CarDepths
    /\ bedroom_area \in BedroomAreas
    /\ bedrooms_count \in BedroomCounts
    /\ bath_area \in BathAreas
    /\ lounge_area \in LoungeAreas
    /\ pc = "idle"
    /\ cell_m = 0
    /\ grid_w = 0 /\ grid_h = 0
    /\ left_c = 0 /\ right_c = 0 /\ front_c = 0 /\ rear_c = 0
    /\ build_w = 0 /\ build_h = 0
    /\ fperr = 0
    /\ rooms = <<>>
    /\ idx = 0
    /\ layout = EmptyLayout
    /\ cursor_x = 0 /\ cursor_y = 0 /\ max_row_height = 0
    /\ started_shelf = FALSE
    /\ warnings = <<>>
    /\ error_shown = FALSE
    /\ coverage = <<>>

Next == Generate \/ PrepareRooms \/ PlaceRoom \/ Coverage

Spec == Init /\ [][Next]_vars

\* ------------------------------------------------------------ properties
Placing == pc \in {"placing", "done"}
Rect(n) == layout[n]
WCells(r) == GridCells(r.w, cell_m)
HCells(r) == GridCells(r.h, cell_m)
CellArea(r) == WCells(r) * HCells(r)
Warned == {warnings[k] : k \in 1..Len(warnings)}
\* position of a name in the list as built (lines 72-79)
InputIndex(name) == CHOOSE k \in 1..Len(RoomList) : RoomList[k].name = name

Disjoint(a, b) ==
    \/ a[1] + a[3] <= b[1]
    \/ b[1] + b[3] <= a[1]
    \/ a[2] + a[4] <= b[2]
    \/ b[2] + b[4] <= a[2]

\* C1: any two distinct rooms stored in the layout have disjoint cell
\* rectangles, whatever the buildable grid and the room sizes are.
NoOverlap ==
    \A a \in DOMAIN layout : \A b \in DOMAIN layout :
        a # b => Disjoint(Rect(a), Rect(b))

\* A finished run with an overflowed room, a room wider than the buildable grid
\* stored, and at least three rooms stored on more than one shelf.
NoOverlapWitness ==
    /\ pc = "done"
    /\ warnings # <<>>
    /\ Cardinality(DOMAIN layout) >= 3
    /\ \E a \in DOMAIN layout : Rect(a)[3] > build_w
    /\ \E a \in DOMAIN layout : \E b \in DOMAIN layout :
          Rect(a)[2] # Rect(b)[2]

\* C2: every stored room lies inside the buildable grid:
\* 0 <= x, x + w_cells <= build_w, 0 <= y, y + h_cells <= build_h.
Containment ==
    \A n \in DOMAIN layout :
        /\ 0 <= Rect(n)[1]
        /\ Rect(n)[1] + Rect(n)[3] <= build_w
        /\ 0 <= Rect(n)[2]
        /\ Rect(n)[2] + Rect(n)[4] <= build_h

\* C3: once the grid is computed with build_w <= 0 or build_h <= 0 the run is
\* stopped with the error shown: no room list, empty layout, no overflow
\* warning, no coverage.
NoBuildableSpaceStops ==
    (cell_m # 0 /\ (build_w <= 0 \/ build_h <= 0)) =>
        /\ pc = "stopped"
        /\ error_shown
        /\ rooms = <<>>
        /\ DOMAIN layout = {}
        /\ warnings = <<>>
        /\ coverage = <<>>

\* The grid was computed, the width is fine and the depth is used up exactly.
NoBuildableSpaceWitness ==
    /\ pc = "stopped"
    /\ build_w > 0
    /\ build_h = 0

\* C4: a run with a negative plot dimension or setback, or with
\* grid_snap_cm <= 0, computes no cell count and produces no layout.
InvalidMeasurement ==
    \/ PLOT_WIDTH < 0 \/ PLOT_DEPTH < 0
    \/ front_setback < 0 \/ rear_setback < 0
    \/ left_setback < 0 \/ right_setback < 0
    \/ grid_snap_cm <= 0

InvalidMeasurementAborts ==
    InvalidMeasurement =>
        /\ pc \in {"idle", "raised"}
        /\ cell_m = 0
        /\ rear_c = 0
        /\ DOMAIN layout = {}

\* C5: on the default inputs the buildable grid is 20 x 37 cells and the car
\* porch is stored as 6 x 11 cells at (0, 0).
DefaultInputs ==
    /\ PLOT_WIDTH = 140 /\ PLOT_DEPTH = 240
    /\ front_setback = 45 /\ rear_setback = 30
    /\ left_setback = 20 /\ right_setback = 20
    /\ grid_snap_cm = 50
    /\ car_w = 32 /\ car_d = 55
    /\ bedroom_area = 12 /\ bedrooms_count = 3
    /\ bath_area = 4 /\ lounge_area = 20

ScenarioAClaimed ==
    (DefaultInputs /\ pc = "done") =>
        /\ build_w = 20
        /\ build_h = 37
        /\ CarPorch \in DOMAIN layout
        /\ Rect(CarPorch) = <<0, 0, 6, 11>>

\* C5 as amended: on the default inputs the buildable grid is 20 x 33 cells, the
\* lounge (the largest area) is stored at (0, 0) as 10 x 8 cells and the car
\* porch as 6 x 11 cells next to it at (10, 0).
ScenarioA ==
    (DefaultInputs /\ pc = "done") =>
        /\ build_w = 20
        /\ build_h = 33
        /\ CarPorch \in DOMAIN layout
        /\ Rect(CarPorch) = <<10, 0, 6, 11>>
        /\ Lounge \in DOMAIN layout
        /\ Rect(Lounge) = <<0, 0, 10, 8>>

ScenarioAWitness == DefaultInputs /\ pc = "done" /\ CarPorch \in DOMAIN layout

\* C6: the rooms are processed in non-increasing order of w_cells * h_cells.
CellAreaOrder ==
    Placing =>
        \A i \in 1..(idx - 1) : \A j \in 1..(idx - 1) :
            i < j => CellArea(rooms[i]) >= CellArea(rooms[j])

\* C6 as amended: the rooms are processed in non-increasing order of the
\* product width_m * height_m in metres, the key the sort computes.
MetricAreaOrder ==
    Placing =>
        \A i \in 1..(idx - 1) : \A j \in 1..(idx - 1) :
            i < j => SortKey(rooms[i], fperr) >= SortKey(rooms[j], fperr)

\* All rooms processed, two of them with different keys, and the one with the
\* larger metric area covering fewer cells.
MetricAreaOrderWitness ==
    /\ pc = "done"
    /\ \E i \in 1..Len(rooms) : \E j \in 1..Len(rooms) :
          /\ i < j
          /\ SortKey(rooms[i], fperr) > SortKey(rooms[j], fperr)
          /\ CellArea(rooms[i]) < CellArea(rooms[j])

\* C7: of two rooms with exactly equal area (equal sort key), the one listed
\* first in the room list as built is processed first.
StableTieBreak ==
    Placing =>
        \A i \in 1..(idx - 1) : \A j \in 1..Len(rooms) :
            ( /\ i # j
              /\ SortKey(rooms[i], fperr) = SortKey(rooms[j], fperr)
              /\ InputIndex(rooms[j].name) < InputIndex(rooms[i].name) )
            => j < i

\* All rooms processed, with three bedrooms of one area and the car porch tied
\* with the lounge.
StableTieBreakWitness ==
    /\ pc = "done"
    /\ bedrooms_count >= 3
    /\ \E i \in 1..Len(rooms) : \E j \in 1..Len(rooms) :
          /\ rooms[i].name = CarPorch
          /\ rooms[j].name = Lounge
          /\ SortKey(rooms[i], fperr) = SortKey(rooms[j], fperr)
    /\ \E b \in 1..bedrooms_count : Bedroom(b) \in DOMAIN layout
    /\ \E b \in 1..bedrooms_count : Bedroom(b) \in Warned

\* C8: each requested room is processed exactly once and ends either stored in
\* the layout or reported as overflow, never both; a room with
\* h_cells > build_h is reported as overflow; an overflow does not stop the
\* loop, so a finished run has dealt with every requested room.
OverflowNonFatal ==
    Placing =>
        LET done == {rooms[k].name : k \in 1..(idx - 1)}
            asked == {RoomList[k].name : k \in 1..Len(RoomList)}
        IN  /\ idx - 1 <= Len(rooms)
            /\ Len(rooms) = Len(RoomList)
            /\ {rooms[k].name : k \in 1..Len(rooms)} = asked
            /\ Cardinality(asked) = Len(RoomList)
            /\ done = DOMAIN layout \cup Warned
            /\ DOMAIN layout \cap Warned = {}
            /\ Cardinality(DOMAIN layout) + Len(warnings) = idx - 1
            /\ \A k \in 1..(idx - 1) :
                  HCells(rooms[k]) > build_h => rooms[k].name \in Warned
            /\ pc = "done" => DOMAIN layout \cup Warned = asked

\* A finished run in which a room taller than the buildable grid overflowed and
\* a room after it in the sorted order was stored.
OverflowNonFatalWitness ==
    /\ pc = "done"
    /\ \E i \in 1..Len(rooms) : \E j \in 1..Len(rooms) :
          /\ i < j
          /\ HCells(rooms[i]) > build_h
          /\ rooms[i].name \in Warned
          /\ rooms[j].name \in DOMAIN layout

\* The step is an iteration of the loop that skipped its room as overflow.
OverflowStep == pc = "placing" /\ Len(warnings') > Len(warnings)

\* C9: an iteration that skips its room as overflow leaves cursor_x, cursor_y
\* and max_row_height as they were before the iteration.
OverflowKeepsCursor ==
    [][OverflowStep => cursor' = cursor]_vars

\* C9 as amended: an iteration that skips its room as overflow leaves the
\* cursor as the shelf check of the same iteration set it: unchanged if the
\* room fitted in the row (cursor_x + w_cells <= build_w), and otherwise at the
\* start of a new shelf, cursor_x = 0, cursor_y advanced by max_row_height,
\* max_row_height = 0.
OverflowKeepsShelfCursor ==
    [][OverflowStep =>
         IF cursor_x + WCells(rooms[idx]) > build_w
           THEN /\ cursor_x' = 0
                /\ cursor_y' = cursor_y + max_row_height
                /\ max_row_height' = 0
           ELSE cursor' = cursor]_vars

\* The last iteration skipped its room without starting a shelf, in a row that
\* already holds a room.
OverflowKeepsShelfCursorWitness ==
    /\ Placing
    /\ idx > 1
    /\ rooms[idx - 1].name \in Warned
    /\ ~started_shelf
    /\ cursor_x > 0
    /\ max_row_height > 0

\* C10: every setback takes at least one cell, a setback of 0 m too, so
\* build_w <= grid_w - 2 and build_h <= grid_h - 2, and a plot of at most 2
\* cells in width or depth ends in the no-buildable-space error.
SetbackFloor ==
    cell_m # 0 =>
        /\ left_c >= 1 /\ right_c >= 1 /\ front_c >= 1 /\ rear_c >= 1
        /\ build_w <= grid_w - 2
        /\ build_h <= grid_h - 2
        /\ (grid_w <= 2 \/ grid_h <= 2) => (pc = "stopped" /\ error_shown)

\* A zero front setback took one cell; a plot two cells deep was refused.
SetbackFloorWitness ==
    /\ pc = "stopped"
    /\ front_setback = 0
    /\ front_c = 1
    /\ grid_h = 2
    /\ grid_w > 2
====
